---- MODULE Spec2Model ----
(***************************************************************************)
(* State-machine model of tmx_cli.py (Cookidoo week plan CLI): the login   *)
(* handshake do_login, the cookie store, the week plan synchronisation     *)
(* sync_weekplan with its caller cmd_plan_sync, the extraction             *)
(* parse_weekplan_html, and the commands today, plan move and cache clear. *)
(*                                                                         *)
(* Dates are day numbers; the day the model starts on is day 0.  A date    *)
(* STRING is a record [fmt, d]: "iso" is the text YYYY-MM-DD of day d,     *)
(* "basic" the text YYYYMMDD of day d, "bad" a text that is no ISO date.   *)
(* All days of the model lie in one calendar year.                         *)
(***************************************************************************)
EXTENDS Integers, Sequences, FiniteSets, TLC

VARIABLES
    clock,          \* wall clock, in ticks
    cookiesFile,    \* COOKIES_FILE: [exists, content (sequence of cookie records)]
    weekplanFile,   \* WEEKPLAN_JSON: [exists, data]
    remote,         \* the week pages the remote service holds, per requested date
    pc,             \* position of the single-threaded program
    cmd,            \* the command that is running (or ran last)
    args,           \* its arguments [since, days]
    lg,             \* locals of do_login
    ret,            \* value returned by do_login: [ok, msg, count]
    sw,             \* locals of sync_weekplan
    data,           \* value returned by sync_weekplan
    net,            \* requests of the running call: the requestIds do_login has
                    \*   POSTed, the weeks sync_weekplan has requested
    before,         \* both files as they were when the running command began
    prev,           \* the preceding sync_weekplan call that returned
    page,           \* the text at hand for the extraction called on its own
    parsed,         \* the results of these calls, in call order
    shown,          \* what cmd_today has shown: [done, today_str, day]
    plan,           \* the dates the remote plan holds the recipe on
    mv,             \* locals and result of move_recipe_in_plan
    tokenFile,      \* SEARCH_TOKEN_FILE exists
    cleared         \* the cache clear that has run: "no", "some", "all"

vars == <<clock, cookiesFile, weekplanFile, remote, pc, cmd, args, lg, ret, sw,
          data, net, before, prev, page, parsed,
          shown,
          plan,
          mv,
          tokenFile,
          cleared>>

----------------------------------------------------------------------------
(* Bounds of the model *)

\* the clock stops after this many ticks
MaxClock == 3
\* ticks in one calendar day
TicksPerDay == 2
\* day blocks in all the pages the remote service holds at one time
MaxBlocks == 2
\* the largest --days asked of the remote service that serves whole weeks
MaxDays == 15

(* Program constants *)

\* dt.timedelta(weeks=week_offset), days_count // 7
DaysPerWeek == 7
\* weeks_needed = (days_count // 7) + 2
SafetyWeeks == 2

----------------------------------------------------------------------------
(* Dates and date strings *)

Iso(d) == [fmt |-> "iso", d |-> d]
Basic(d) == [fmt |-> "basic", d |-> d]
BadDate == [fmt |-> "bad", d |-> 0]

\* dt.date.today()
Today == clock \div TicksPerDay

\* dt.date.isoformat()
isoformat(d) == Iso(d)

\* dt.date.fromisoformat(s) raises ValueError on s (Python >= 3.11 reads both
\* YYYY-MM-DD and YYYYMMDD)
RaisesValueError(s) == s.fmt \notin {"iso", "basic"}

\* dt.date.fromisoformat(s), where it does not raise
fromisoformat(s) == s.d

\* Python's str order on date strings of one year: '-' sorts before every digit
StrLess(a, b) ==
    IF a.fmt = b.fmt THEN a.d < b.d ELSE a.fmt = "iso"

----------------------------------------------------------------------------
(* Cookie store *)

AuthNames == {"v-authenticated", "_oauth2_proxy"}

Cookie(n, v, dom) == [name |-> n, value |-> v, domain |-> dom]

NoCookiesFile == [exists |-> FALSE, content |-> <<>>]

\* load_cookies(): name -> value of the records whose name and value are truthy,
\* a later record of a name replacing an earlier one
LoadCookies(file) ==
    LET recs == file.content
        ok(i) == recs[i].name # "" /\ recs[i].value # ""
        names == IF file.exists THEN {recs[i].name : i \in {j \in 1..Len(recs) : ok(j)}}
                 ELSE {}
        last(n) == CHOOSE i \in 1..Len(recs) :
                      /\ ok(i) /\ recs[i].name = n
                      /\ \A j \in (i+1)..Len(recs) : ~(ok(j) /\ recs[j].name = n)
    IN [n \in names |-> recs[last(n)].value]

\* a variant that takes any stored cookie for a login
is_authenticated_any(cookies) == DOMAIN cookies # {}

\* is_authenticated(cookies)
is_authenticated(cookies) ==
    "v-authenticated" \in DOMAIN cookies \/ "_oauth2_proxy" \in DOMAIN cookies

----------------------------------------------------------------------------
(* Week pages and their extraction.  A page is [marker, blocks]: marker is the
   text outside the day blocks that fetch_week looks at ("none" for a page
   without such text), blocks the day blocks in document order. *)

NoMatch == "<no match>"

Tile(id, title) == [id |-> id, title |-> title, image |-> NoMatch]

\* a <plan-week-day date=...> block: its date attribute, the texts of its
\* day-short / day-number elements, whether it carries a today marker, its tiles
BlockA(s) == [date |-> s, name |-> "Mo", number |-> "1", today |-> FALSE,
              tiles |-> <<Tile("r1", "Suppe")>>]
BlockB(s) == [date |-> s, name |-> NoMatch, number |-> NoMatch, today |-> TRUE,
              tiles |-> <<Tile("r2", " "), Tile("r3", "Brot"), Tile("r4", NoMatch),
                          Tile("r5", "Salat")>>]

\* str.strip() on the texts of the model
strip(s) == IF s = " " THEN "" ELSE s

\* a variant that keeps every tile, titled or not
ParseRecipesAll(tiles) ==
    [i \in 1..Len(tiles) |->
       [id |-> tiles[i].id,
        title |-> IF tiles[i].title = NoMatch THEN NoMatch ELSE strip(tiles[i].title),
        url |-> <<"recipes/recipe", tiles[i].id>>, image |-> tiles[i].image]]

\* parse_weekplan_html, the recipes of one day block: a tile is kept when its
\* stripped title is truthy
ParseRecipes(tiles) ==
    LET keep(t) == t.title # NoMatch /\ strip(t.title) # ""
        kept == SelectSeq(tiles, keep)
    IN [i \in 1..Len(kept) |->
          [id |-> kept[i].id, title |-> strip(kept[i].title),
           url |-> <<"recipes/recipe", kept[i].id>>, image |-> kept[i].image]]

ParseDay(b) ==
    [date |-> b.date,
     dayName |-> IF b.name = NoMatch THEN "" ELSE strip(b.name),
     dayNumber |-> IF b.number = NoMatch THEN "" ELSE strip(b.number),
     isToday |-> b.today,
     recipes |-> ParseRecipes(b.tiles)]

\* a variant that leaves out the days without a recipe
parse_weekplan_html_planned(html) ==
    LET planned(b) == Len(ParseRecipes(b.tiles)) > 0
        kept == SelectSeq(html.blocks, planned)
    IN [i \in 1..Len(kept) |-> ParseDay(kept[i])]

\* parse_weekplan_html(html): one day per day block, in document order
parse_weekplan_html(html) ==
    [i \in 1..Len(html.blocks) |-> ParseDay(html.blocks[i])]

EmptyHtml == [marker |-> "none", blocks |-> <<>>]

\* no direct call of the extraction is under way
NoPage == EmptyHtml

\* fetch(url, cookies): (status, body); an HTTPError gives (code, ""), any other
\* failure (timeout, connection) gives (0, "")
Response(status, html) == [status |-> status, html |-> html]

\* str.lower() on the page texts of the model
lower(text) ==
    CASE text = "Falsches Passwort" -> "falsches passwort"
      [] text = "Incorrect" -> "incorrect"
      [] text = "Nicht gefunden" -> "nicht gefunden"
      [] text = "Incorrect, not found" -> "incorrect, not found"
      [] text = "Login" -> "login"
      [] text = "late Login" -> "late login"
      [] OTHER -> text

\* needle in text, on the page texts of the model
Holds(needle, text) ==
    \/ needle = text
    \/ text = "incorrect, not found" /\ needle \in {"incorrect", "not found"}
    \/ text = "late login" /\ needle = "login"

\* text[:500]: the marker "late Login" stands for a "Login" that comes after
\* the first 500 characters of the page
First500(text) == IF text \in {"late Login", "late login"} THEN "" ELSE text

\* a variant that parses every page of status 200
fetch_week_unguarded(resp) ==
    IF resp.status # 200 THEN <<>>
    ELSE parse_weekplan_html(resp.html)

\* fetch_week(cookies, date, today) on the response of its request: the page of
\* a 200 answer is parsed unless "oauth2/start" in html or
\* "login" in html.lower()[:500]
fetch_week(resp) ==
    IF resp.status # 200 THEN <<>>
    ELSE IF Holds("oauth2/start", resp.html.marker)
            \/ Holds("login", First500(lower(resp.html.marker))) THEN <<>>
    ELSE parse_weekplan_html(resp.html)

----------------------------------------------------------------------------
(* The remote service *)

PageDateStrs == {Iso(0), Iso(1), Basic(0), BadDate}

\* the day blocks of the model's pages: one per date string, and a second,
\* different one for day 0
Blocks == {BlockA(s) : s \in PageDateStrs} \cup {BlockB(Iso(0))}

SeqsUpTo(S, n) == UNION {[1..k -> S] : k \in 0..n}

\* day blocks in the pages the remote service holds
HeldBlocks(r) ==
    LET RECURSIVE Sum(_)
        Sum(D) == IF D = {} THEN 0
                  ELSE LET k == CHOOSE x \in D : TRUE
                       IN Len(r[k].html.blocks) + Sum(D \ {k})
    IN Sum(DOMAIN r)

\* the answers the remote service can give to a request not made before: a week
\* page, a page that carries a login marker (with or without a day block), an
\* HTTP error, a failed connection
NewResponses(r) ==
    {Response(200, [marker |-> "none", blocks |-> bs]) :
        bs \in SeqsUpTo(Blocks, MaxBlocks - HeldBlocks(r))}
    \cup {Response(200, [marker |-> "oauth2/start", blocks |-> bs]) :
            bs \in {<<>>, <<BlockA(Iso(0))>>}}
    \cup {Response(401, EmptyHtml), Response(0, EmptyHtml)}

NoRemote == [k \in {} |-> Response(0, EmptyHtml)]

----------------------------------------------------------------------------
(* sync_weekplan *)

NoSw == [cookies |-> [n \in {} |-> ""], today |-> Iso(0), start_date |-> 0,
         end_date |-> 0, weeks_needed |-> 0, week_offset |-> 0,
         all_days |-> <<>>, seen_dates |-> {}, empty_at |-> -1]

NoData == [none |-> TRUE]

ErrNotLoggedIn == "Keine gueltigen Cookies. Bitte zuerst einloggen."
ErrSessionExpired == "Session abgelaufen oder keine Daten. Bitte neu einloggen."

\* all_days.sort(key=lambda d: d.get("date", "")): stable insertion by date string
RECURSIVE SortByDate(_)
SortByDate(s) ==
    IF s = <<>> THEN <<>>
    ELSE LET front == SortByDate(SubSeq(s, 1, Len(s) - 1))
             x == s[Len(s)]
             n == Cardinality({i \in 1..Len(front) : ~StrLess(x.date, front[i].date)})
         IN SubSeq(front, 1, n) \o <<x>> \o SubSeq(front, n + 1, Len(front))

\* a variant of the range test that takes in the end date
InRangeInclusive(d, start_date, end_date) == start_date <= d /\ d <= end_date

\* start_date <= day_date < end_date
InRange(d, start_date, end_date) == start_date <= d /\ d < end_date

\* the loop "for day in days" of sync_weekplan from day i on:
\* [all_days, seen_dates, raised]
RECURSIVE MergeDays(_, _, _, _, _, _, _)
MergeDays(days, i, all_days, seen_dates, start_date, end_date, today) ==
    IF i > Len(days) THEN
        [all_days |-> all_days, seen_dates |-> seen_dates, raised |-> FALSE]
    ELSE LET day == days[i]
             date == day.date
         IN IF date \in seen_dates THEN
                MergeDays(days, i + 1, all_days, seen_dates, start_date, end_date, today)
            ELSE IF RaisesValueError(date) THEN
                [all_days |-> all_days, seen_dates |-> seen_dates, raised |-> TRUE]
            ELSE IF InRange(fromisoformat(date), start_date, end_date) THEN
                MergeDays(days, i + 1,
                          Append(all_days, [day EXCEPT !.isToday = (date = today)]),
                          seen_dates \cup {date}, start_date, end_date, today)
            ELSE MergeDays(days, i + 1, all_days, seen_dates, start_date, end_date, today)

----------------------------------------------------------------------------
(* Login: URLs, login pages, cookie jar *)

\* max_redirects = 10
max_redirects == 10

\* a URL: has a scheme (urllib.request.Request accepts it), contains
\* "cookidoo.de", contains "oauth2/start", contains "my-week", and the requestId
\* of its query string
Url(abs, cookidoo, oauth, myweek, token) ==
    [abs |-> abs, cookidoo |-> cookidoo, oauth |-> oauth, myweek |-> myweek,
     token |-> token]

\* ""
UrlEmpty == Url(FALSE, FALSE, FALSE, FALSE, NoMatch)
\* https://eu.login.vorwerk.com/login
UrlIdp == Url(TRUE, FALSE, FALSE, FALSE, NoMatch)
\* https://eu.login.vorwerk.com/login?requestId=reqU
UrlIdpToken == Url(TRUE, FALSE, FALSE, FALSE, "reqU")
\* https://cookidoo.de/foundation/de-DE
UrlHome == Url(TRUE, TRUE, FALSE, FALSE, NoMatch)
\* https://cookidoo.de/planning/de-DE/my-week
UrlMyWeek == Url(TRUE, TRUE, FALSE, TRUE, NoMatch)
\* https://cookidoo.de/oauth2/start?market=de&...&rd=/planning/de-DE/my-week
UrlOauthStart == Url(TRUE, TRUE, TRUE, TRUE, NoMatch)
\* //cookidoo.de/planning/de-DE/my-week (no scheme)
UrlRel == Url(FALSE, TRUE, FALSE, TRUE, NoMatch)

\* what resp.geturl() can be
AbsUrls == {UrlIdp, UrlHome, UrlMyWeek, UrlOauthStart}
\* what a Location header can be
Locations == AbsUrls \cup {UrlEmpty, UrlRel}

\* urljoin(base, u) for a u without scheme
urljoin(base, u) == [u EXCEPT !.abs = base.abs]

\* a login page body: the value of its requestId form field, whether it holds
\* "is-authenticated", the target of its location.href / meta refresh, and the
\* failure phrase it shows
Body(token, auth, redirect, phrase) ==
    [token |-> token, auth |-> auth, redirect |-> redirect, phrase |-> phrase]

NoUrl == [none |-> TRUE]
EmptyBody == Body(NoMatch, FALSE, NoUrl, "")

\* the login form, with its requestId field
FormBody == Body("reqB", FALSE, NoUrl, "")

\* the pages met after the form: an empty one, an authenticated one, one that
\* redirects by script, one that reports a failure
LoginBodies ==
    {EmptyBody,
     Body(NoMatch, TRUE, NoUrl, ""),
     Body(NoMatch, FALSE, UrlRel, ""),
     Body(NoMatch, FALSE, NoUrl, "incorrect")}

\* the cookies the servers of the login flow may set
CookieOffers ==
    {Cookie("v-authenticated", "1", "cookidoo.de"),
     Cookie("_oauth2_proxy", "", "cookidoo.de"),
     Cookie("v-authenticated", "1", "eu.login.vorwerk.com")}

\* the Set-Cookie headers of the responses to one opener.open call
SetCookieChoices == {<<>>} \cup {<<c>> : c \in CookieOffers}

\* "cookidoo" in c.domain
InCookidooDomain(c) ==
    c.domain \in {"cookidoo.de", "ciam.prod.cookidoo.vorwerk-digital.com"}

\* CookieJar.set_cookie: keyed by domain and name (one path), iterated domain by
\* domain in the order the domains were first seen
SetCookie(jar, c) ==
    LET same == {i \in 1..Len(jar) : jar[i].domain = c.domain /\ jar[i].name = c.name}
        dom == {i \in 1..Len(jar) : jar[i].domain = c.domain}
    IN IF same # {} THEN [jar EXCEPT ![CHOOSE i \in same : TRUE] = c]
       ELSE IF dom = {} THEN Append(jar, c)
       ELSE LET n == CHOOSE i \in dom : \A j \in dom : j <= i
            IN SubSeq(jar, 1, n) \o <<c>> \o SubSeq(jar, n + 1, Len(jar))

RECURSIVE JarAfter(_, _)
JarAfter(jar, cs) ==
    IF cs = <<>> THEN jar ELSE JarAfter(SetCookie(jar, Head(cs)), Tail(cs))

\* the outcomes of one opener.open(req) + resp.read(): a response read to the end
\* (after the redirects urllib followed), an HTTPError with a redirect code and
\* the Location header it carries, an HTTPError of another code, another failure
Outcome(kind, code, body, url) ==
    [kind |-> kind, code |-> code, body |-> body, url |-> url]

FailedOutcomes ==
    {Outcome("httperror", 401, EmptyBody, UrlEmpty),
     Outcome("exception", 0, EmptyBody, UrlEmpty)}

\* the outcomes of the OAuth start request, as far as do_login reads them: the
\* requestId in the body and in the landing URL
StartOutcomes ==
    {Outcome("ok", 200, b, u) : b \in {EmptyBody, FormBody}, u \in {UrlIdp, UrlIdpToken}}
    \cup {Outcome("redirect", 302, EmptyBody, UrlIdp)}
    \cup FailedOutcomes

\* the outcomes of the credential POST and of the requests of the redirect loop
OpenOutcomes ==
    {Outcome("ok", 200, b, u) : b \in LoginBodies, u \in AbsUrls}
    \cup {Outcome("redirect", 302, EmptyBody, u) : u \in Locations}
    \cup FailedOutcomes

\* a variant that reads the landing URL first
RequestIdUrlFirst(login_html, login_url) ==
    IF login_url.token # NoMatch THEN login_url.token ELSE login_html.token

\* the requestId do_login extracts: the form field of the body, else the query
\* string of the landing URL
RequestIdOf(login_html, login_url) ==
    IF login_html.token # NoMatch THEN login_html.token ELSE login_url.token

\* a variant that writes the cookies of the Cookidoo domains only
save_cookidoo_cookies(jar) ==
    [exists |-> TRUE, content |-> SelectSeq(jar, InCookidooDomain)]

\* save_cookies_from_jar(jar): one record per cookie of the jar, in jar order
save_cookies_from_jar(jar) ==
    [exists |-> TRUE, content |-> [i \in 1..Len(jar) |-> jar[i]]]

\* a variant that looks at the cookies of every domain
HasAuthCookiesAnyDomain(jar) ==
    \E i \in 1..Len(jar) : jar[i].name \in AuthNames

\* auth_cookies = {c.name: c.value for c in jar if "cookidoo" in c.domain}, and
\* the test on it
HasAuthCookies(jar) ==
    \E i \in 1..Len(jar) : InCookidooDomain(jar[i]) /\ jar[i].name \in AuthNames

MsgOauthFailed == "OAuth-Start fehlgeschlagen"
MsgNoRequestId == "Konnte requestId nicht finden"
MsgPostFailed == "Login fehlgeschlagen"
MsgSuccess == "Login erfolgreich! Cookies gespeichert."
MsgWrongPassword == "Falsches Passwort"
MsgNotFound == "E-Mail-Adresse nicht gefunden"
MsgNoAuthCookies == "Login fehlgeschlagen - keine Auth-Cookies erhalten"

\* the failure message of do_login, from the last response body
FailureMessage(result_html) ==
    LET low == lower(result_html.phrase)
    IN IF Holds("falsches Passwort", low) \/ Holds("incorrect", low)
           THEN MsgWrongPassword
       ELSE IF Holds("nicht gefunden", low) \/ Holds("not found", low)
           THEN MsgNotFound
       ELSE MsgNoAuthCookies

NoLg == [jar |-> <<>>, login_html |-> EmptyBody, login_url |-> UrlEmpty,
         request_id |-> NoMatch, post_status |-> 0, post_gets |-> 0,
         result_html |-> EmptyBody,
         final_url |-> UrlEmpty, redirect_count |-> 0, left |-> ""]

NoRet == [ok |-> FALSE, msg |-> "", count |-> 0]
NoNet == [posts |-> <<>>, requests |-> <<>>]

----------------------------------------------------------------------------
(* Inputs and the state a run starts from *)

\* "" (an empty --since)
EmptyStr == [fmt |-> "empty", d |-> 0]

\* --since as typed
SinceInputs == {Iso(0), BadDate, EmptyStr}
\* --days
DayCounts == {-8, -1, 0, 1, 14}

NoArgs == [since |-> EmptyStr, days |-> 0]
NoPrev == [valid |-> FALSE, since |-> EmptyStr, days |-> 0, today |-> Iso(0),
           start_date |-> 0, data |-> NoData]

\* move_recipe_in_plan has not been called
NoMv == [from_date |-> EmptyStr, to_date |-> EmptyStr, requests |-> <<>>,
         removed |-> FALSE, before |-> {},
         ret |-> [ok |-> FALSE, msg |-> ""]]

\* cmd_today has shown nothing
NoDay == [none |-> TRUE]
NoShown == [done |-> FALSE, today_str |-> Iso(0), day |-> NoDay]

\* the cookie store: none, one without an auth cookie, one exported from a
\* logged-in browser
InitCookieFiles ==
    {NoCookiesFile,
     [exists |-> TRUE, content |-> <<Cookie("sid", "s", "cookidoo.de")>>],
     [exists |-> TRUE, content |-> <<Cookie("_oauth2_proxy", "tok", "cookidoo.de")>>]}

\* the snapshot file: none, or the snapshot of a sync of the week before
NoWeekplanFile == [exists |-> FALSE, data |-> NoData]
OldSnapshot ==
    [timestamp |-> -1, sinceDate |-> Iso(-7),
     weekplan |-> [days |-> <<[ParseDay(BlockB(Iso(-7))) EXCEPT !.isToday = FALSE]>>]]
InitWeekplanFiles == {NoWeekplanFile, [exists |-> TRUE, data |-> OldSnapshot]}

Init ==
    /\ clock = 0
    /\ cookiesFile \in InitCookieFiles
    /\ weekplanFile \in InitWeekplanFiles
    /\ remote = NoRemote
    /\ pc = "idle"
    /\ cmd = "none"
    /\ args = NoArgs
    /\ lg = NoLg
    /\ ret = NoRet
    /\ sw = NoSw
    /\ data = NoData
    /\ net = NoNet
    /\ before = [cookies |-> cookiesFile, weekplan |-> weekplanFile]
    /\ prev = NoPrev
    /\ cleared = "no"
    /\ tokenFile = FALSE
    /\ mv = NoMv
    /\ plan = {}
    /\ shown = NoShown
    /\ parsed = <<>>
    /\ page = NoPage

----------------------------------------------------------------------------
(* Environment *)

\* time passes
Tick ==
    /\ clock < MaxClock
    /\ clock' = clock + 1
    /\ UNCHANGED <<cookiesFile, weekplanFile, remote, pc, cmd, args, lg, ret, sw,
                   data, net, before, prev, page, parsed, shown, plan, mv,
                   tokenFile, cleared>>

----------------------------------------------------------------------------
(* do_login *)

\* do_login returns (ok, msg)
LoginReturn(ok, msg, jar) ==
    /\ ret' = [ok |-> ok, msg |-> msg, count |-> IF ok THEN Len(jar) ELSE 0]
    /\ pc' = "login_ret"

\* lines 115-152: the OAuth start request and the requestId
LoginStart ==
    /\ pc = "login_start"
    /\ \E out \in StartOutcomes, cs \in SetCookieChoices :
         LET jar == JarAfter(<<>>, cs)
             request_id == RequestIdOf(out.body, out.url)
         IN IF out.kind # "ok" THEN
                /\ LoginReturn(FALSE, MsgOauthFailed, jar)
                /\ lg' = [NoLg EXCEPT !.jar = jar]
            ELSE IF request_id = NoMatch THEN
                /\ LoginReturn(FALSE, MsgNoRequestId, jar)
                /\ lg' = [NoLg EXCEPT !.jar = jar, !.login_html = out.body,
                                      !.login_url = out.url]
            ELSE
                /\ lg' = [NoLg EXCEPT !.jar = jar, !.login_html = out.body,
                                      !.login_url = out.url,
                                      !.request_id = request_id]
                /\ pc' = "login_post"
                /\ ret' = NoRet
    /\ UNCHANGED <<clock, cookiesFile, weekplanFile, remote, cmd, args, sw, data,
                   net, before, prev, page, parsed, shown, plan, mv, tokenFile,
                   cleared>>

\* the statuses the login server answers the credential POST with
PostStatuses == {200, 302, 307, 401}

\* the opener of lines 119-122 holds urllib's own HTTPRedirectHandler
\* (NoRedirectHandler is not installed): a 301, 302 or 303 answer to a POST is
\* followed by a GET inside opener.open, a 307 answer to a POST is raised as
\* HTTPError
FollowedByOpener(status) == status \in {301, 302, 303}

\* the outcomes of the credential POST for the status of the server's answer
PostOutcomes(status) ==
    CASE status = 200 -> {o \in OpenOutcomes : o.kind = "ok"}
      [] FollowedByOpener(status) -> OpenOutcomes
      [] status = 307 -> {o \in OpenOutcomes : o.kind = "redirect"}
      [] OTHER -> FailedOutcomes

\* lines 154-185: the credential POST
LoginPost ==
    /\ pc = "login_post"
    /\ net' = [net EXCEPT !.posts = Append(@, lg.request_id)]
    /\ \E status \in PostStatuses :
       \E out \in PostOutcomes(status), cs \in SetCookieChoices :
         LET jar == JarAfter(lg.jar, cs)
             called == [lg EXCEPT !.jar = jar, !.post_status = status,
                                  !.post_gets = IF FollowedByOpener(status) THEN 1
                                                ELSE 0]
         IN CASE out.kind = "ok" ->
                   /\ lg' = [called EXCEPT !.result_html = out.body,
                                           !.final_url = out.url]
                   /\ pc' = "login_hop"
                   /\ ret' = ret
              [] out.kind = "redirect" ->
                   /\ lg' = [called EXCEPT !.result_html = EmptyBody,
                                           !.final_url = out.url]
                   /\ pc' = "login_hop"
                   /\ ret' = ret
              [] OTHER ->
                   /\ lg' = called
                   /\ LoginReturn(FALSE, MsgPostFailed, jar)
    /\ UNCHANGED <<clock, cookiesFile, weekplanFile, remote, cmd, args, sw, data,
                   before, prev, page, parsed, shown, plan, mv, tokenFile,
                   cleared>>

\* line 192: the loop condition fails
LoginHopsUsed ==
    /\ pc = "login_hop"
    /\ ~(lg.redirect_count < max_redirects)
    /\ lg' = [lg EXCEPT !.left = "hops"]
    /\ pc' = "login_verify"
    /\ UNCHANGED <<clock, cookiesFile, weekplanFile, remote, cmd, args, ret, sw,
                   data, net, before, prev, page, parsed, shown, plan, mv,
                   tokenFile, cleared>>

\* lines 192-206: the first half of an iteration, the visit of a Cookidoo URL
LoginHopVisit ==
    /\ pc = "login_hop"
    /\ lg.redirect_count < max_redirects
    /\ IF lg.final_url.cookidoo /\ ~lg.final_url.oauth THEN
           IF ~lg.final_url.abs THEN
               \* urllib.request.Request(final_url) raises ValueError
               /\ pc' = "crashed"
               /\ lg' = lg
           ELSE
               \E out \in OpenOutcomes, cs \in SetCookieChoices :
                  LET jar == JarAfter(lg.jar, cs)
                  IN IF out.kind = "ok" THEN
                         IF out.body.auth \/ out.url.myweek THEN
                             /\ lg' = [lg EXCEPT !.jar = jar, !.result_html = out.body,
                                                 !.final_url = out.url,
                                                 !.left = "marker"]
                             /\ pc' = "login_verify"
                         ELSE
                             /\ lg' = [lg EXCEPT !.jar = jar, !.result_html = out.body,
                                                 !.final_url = out.url]
                             /\ pc' = "login_follow"
                     ELSE
                         /\ lg' = [lg EXCEPT !.jar = jar]
                         /\ pc' = "login_follow"
       ELSE
           /\ pc' = "login_follow"
           /\ lg' = lg
    /\ UNCHANGED <<clock, cookiesFile, weekplanFile, remote, cmd, args, ret, sw,
                   data, net, before, prev, page, parsed, shown, plan, mv,
                   tokenFile, cleared>>

\* lines 208-235: the second half, the redirect the body names
LoginHopFollow ==
    /\ pc = "login_follow"
    /\ IF lg.result_html.redirect = NoUrl THEN
           /\ lg' = [lg EXCEPT !.left = "noredirect"]
           /\ pc' = "login_verify"
       ELSE LET target == lg.result_html.redirect
                next_url == IF target.abs THEN target ELSE urljoin(lg.final_url, target)
            IN IF ~next_url.abs THEN
                   \* urllib.request.Request(next_url) raises ValueError
                   /\ pc' = "crashed"
                   /\ lg' = lg
               ELSE
                   \E out \in OpenOutcomes, cs \in SetCookieChoices :
                      LET jar == JarAfter(lg.jar, cs)
                      IN CASE out.kind = "ok" ->
                                /\ lg' = [lg EXCEPT !.jar = jar,
                                                    !.result_html = out.body,
                                                    !.final_url = out.url,
                                                    !.redirect_count = @ + 1]
                                /\ pc' = "login_hop"
                           [] out.kind = "redirect" ->
                                /\ lg' = [lg EXCEPT !.jar = jar, !.final_url = out.url,
                                                    !.redirect_count = @ + 1]
                                /\ pc' = "login_hop"
                           [] OTHER ->
                                /\ lg' = [lg EXCEPT !.jar = jar, !.left = "failedhop"]
                                /\ pc' = "login_verify"
    /\ UNCHANGED <<clock, cookiesFile, weekplanFile, remote, cmd, args, ret, sw,
                   data, net, before, prev, page, parsed, shown, plan, mv,
                   tokenFile, cleared>>

\* a variant that saves the jar before it checks it
LoginVerifySaveFirst ==
    /\ pc = "login_verify"
    /\ cookiesFile' = save_cookies_from_jar(lg.jar)
    /\ IF HasAuthCookies(lg.jar) THEN LoginReturn(TRUE, MsgSuccess, lg.jar)
       ELSE LoginReturn(FALSE, FailureMessage(lg.result_html), lg.jar)
    /\ UNCHANGED <<clock, weekplanFile, remote, cmd, args, lg, sw, data, net,
                   before, prev, page, parsed, shown, plan, mv, tokenFile,
                   cleared>>

\* lines 237-252: the check of the jar, the save and the result
LoginVerify ==
    /\ pc = "login_verify"
    /\ IF HasAuthCookies(lg.jar) THEN
           /\ cookiesFile' = save_cookies_from_jar(lg.jar)
           /\ LoginReturn(TRUE, MsgSuccess, lg.jar)
       ELSE
           /\ cookiesFile' = cookiesFile
           /\ LoginReturn(FALSE, FailureMessage(lg.result_html), lg.jar)
    /\ UNCHANGED <<clock, weekplanFile, remote, cmd, args, lg, sw, data, net,
                   before, prev, page, parsed, shown, plan, mv, tokenFile,
                   cleared>>

----------------------------------------------------------------------------
(* cmd_login *)

\* lines 1117-1137: credentials given, do_login is called; credentials missing,
\* the command ends
CmdLogin ==
    /\ pc = "idle"
    /\ cmd' = "login"
    /\ \E given \in BOOLEAN : pc' = IF given THEN "login_start" ELSE "exit"
    /\ UNCHANGED <<clock, cookiesFile, weekplanFile, remote, args, lg, ret, sw,
                   data, net, before, prev, page, parsed, shown, plan, mv,
                   tokenFile, cleared>>

\* lines 1139-1147: the result is printed
CmdLoginDone ==
    /\ pc = "login_ret"
    /\ cmd = "login"
    /\ pc' = "exit"
    /\ UNCHANGED <<clock, cookiesFile, weekplanFile, remote, cmd, args, lg, ret, sw,
                   data, net, before, prev, page, parsed, shown, plan, mv,
                   tokenFile, cleared>>

----------------------------------------------------------------------------
(* sync_weekplan *)

IsError(d) == "error" \in DOMAIN d
IsSnapshot(d) == "weekplan" \in DOMAIN d

\* a variant that asks for the week of the start date over and over
WeekStartSame(l) == l.start_date

\* a variant that starts each week one week late
WeekStartNext(l) == l.start_date + DaysPerWeek * (l.week_offset + 1)

\* week_start = start_date + dt.timedelta(weeks=week_offset)
WeekStart(l) == l.start_date + DaysPerWeek * l.week_offset

\* weeks_needed = (days_count // 7) + 2
WeeksNeeded(days_count) == (days_count \div DaysPerWeek) + SafetyWeeks

\* lines 379-386: the stored cookies, the precondition, today
SyncEnter ==
    /\ pc = "sync_enter"
    /\ net' = NoNet
    /\ LET cookies == LoadCookies(cookiesFile)
       IN IF ~is_authenticated(cookies) THEN
              /\ data' = [error |-> ErrNotLoggedIn]
              /\ sw' = [NoSw EXCEPT !.cookies = cookies]
              /\ pc' = "sync_ret"
          ELSE
              /\ data' = NoData
              /\ sw' = [NoSw EXCEPT !.cookies = cookies, !.today = isoformat(Today)]
              /\ pc' = "sync_parse"
    /\ UNCHANGED <<clock, cookiesFile, weekplanFile, remote, cmd, args, lg, ret,
                   before, prev, page, parsed, shown, plan, mv, tokenFile,
                   cleared>>

\* a variant that falls back on the first day of the model, not on today
SyncParseSinceEpoch ==
    /\ pc = "sync_parse"
    /\ LET start_date == IF RaisesValueError(args.since) THEN 0
                         ELSE fromisoformat(args.since)
       IN sw' = [sw EXCEPT !.start_date = start_date,
                           !.end_date = start_date + args.days,
                           !.weeks_needed = WeeksNeeded(args.days),
                           !.week_offset = 0]
    /\ pc' = "sync_loop"
    /\ UNCHANGED <<clock, cookiesFile, weekplanFile, remote, cmd, args, lg, ret,
                   data, net, before, prev, page, parsed, shown, plan, mv,
                   tokenFile, cleared>>

\* lines 388-398: start date, end date, weeks needed
SyncParseSince ==
    /\ pc = "sync_parse"
    /\ LET start_date == IF RaisesValueError(args.since) THEN Today
                         ELSE fromisoformat(args.since)
       IN sw' = [sw EXCEPT !.start_date = start_date,
                           !.end_date = start_date + args.days,
                           !.weeks_needed = WeeksNeeded(args.days),
                           !.week_offset = 0]
    /\ pc' = "sync_loop"
    /\ UNCHANGED <<clock, cookiesFile, weekplanFile, remote, cmd, args, lg, ret,
                   data, net, before, prev, page, parsed, shown, plan, mv,
                   tokenFile, cleared>>

\* lines 401-406: the loop ends, the range of offsets used up or the week past
\* the end date
SyncLoopEnd ==
    /\ pc = "sync_loop"
    /\ \/ ~(sw.week_offset < sw.weeks_needed)
       \/ WeekStart(sw) > sw.end_date
    /\ pc' = "sync_sort"
    /\ UNCHANGED <<clock, cookiesFile, weekplanFile, remote, cmd, args, lg, ret, sw,
                   data, net, before, prev, page, parsed, shown, plan, mv,
                   tokenFile, cleared>>

\* a variant that takes every empty week for an expired session
FetchWeekStepStrict(resp) ==
    LET days == fetch_week(resp)
        m == MergeDays(days, 1, sw.all_days, sw.seen_dates, sw.start_date,
                       sw.end_date, sw.today)
    IN IF Len(days) = 0 THEN
           /\ data' = [error |-> ErrSessionExpired]
           /\ sw' = [sw EXCEPT !.empty_at = sw.week_offset]
           /\ pc' = "sync_ret"
       ELSE
           /\ data' = data
           /\ sw' = [sw EXCEPT !.all_days = m.all_days,
                               !.seen_dates = m.seen_dates,
                               !.week_offset = IF m.raised THEN @ ELSE @ + 1]
           /\ pc' = IF m.raised THEN "crashed" ELSE "sync_loop"

\* lines 408-426 on the answer resp to the week request: an empty week ends the
\* sync (week 0) or the loop (a later week); the days of another are merged, and
\* a date that is no ISO date raises ValueError out of sync_weekplan
FetchWeekStep(resp) ==
    LET days == fetch_week(resp)
        m == MergeDays(days, 1, sw.all_days, sw.seen_dates, sw.start_date,
                       sw.end_date, sw.today)
    IN IF Len(days) = 0 THEN
           IF sw.week_offset = 0 THEN
               /\ data' = [error |-> ErrSessionExpired]
               /\ sw' = [sw EXCEPT !.empty_at = 0]
               /\ pc' = "sync_ret"
           ELSE
               /\ data' = data
               /\ sw' = [sw EXCEPT !.empty_at = sw.week_offset]
               /\ pc' = "sync_sort"
       ELSE
           /\ data' = data
           /\ sw' = [sw EXCEPT !.all_days = m.all_days,
                               !.seen_dates = m.seen_dates,
                               !.week_offset = IF m.raised THEN @ ELSE @ + 1]
           /\ pc' = IF m.raised THEN "crashed" ELSE "sync_loop"

\* the request of fetch_week: date=<week_date>&today=<today>
WeekRequest(l) == [date |-> isoformat(WeekStart(l)), today |-> l.today]

\* lines 408-426, the remote service free to answer every request afresh
SyncFetchWeek ==
    /\ pc = "sync_loop"
    /\ sw.week_offset < sw.weeks_needed
    /\ ~(WeekStart(sw) > sw.end_date)
    /\ net' = [net EXCEPT !.requests = Append(@, WeekRequest(sw))]
    /\ \E resp \in NewResponses(NoRemote) : FetchWeekStep(resp)
    /\ UNCHANGED <<clock, cookiesFile, weekplanFile, remote, cmd, args, lg, ret,
                   before, prev, page, parsed, shown, plan, mv, tokenFile,
                   cleared>>

\* the answer of a remote service that holds its pages to the request for the
\* week of date d
Answers(r, d) == IF d \in DOMAIN r THEN {r[d]} ELSE NewResponses(r)

Remember(r, d, resp) == [k \in DOMAIN r \cup {d} |-> IF k = d THEN resp ELSE r[k]]

\* lines 408-426, the remote service holding its pages until they change
SyncFetchWeekHeld ==
    /\ pc = "sync_loop"
    /\ sw.week_offset < sw.weeks_needed
    /\ ~(WeekStart(sw) > sw.end_date)
    /\ \E resp \in Answers(remote, WeekStart(sw)) :
         /\ remote' = Remember(remote, WeekStart(sw), resp)
         /\ net' = [net EXCEPT !.requests = Append(@, WeekRequest(sw))]
         /\ FetchWeekStep(resp)
    /\ UNCHANGED <<clock, cookiesFile, weekplanFile, cmd, args, lg, ret, before, prev, page,
                   parsed, shown, plan, mv, tokenFile, cleared>>

\* a variant that stamps the week plan, too, with the time of the sync
SyncSortStamped ==
    /\ pc = "sync_sort"
    /\ sw' = [sw EXCEPT !.all_days = SortByDate(@)]
    /\ data' = [timestamp |-> clock, sinceDate |-> args.since,
                weekplan |-> [days |-> SortByDate(sw.all_days), syncedAt |-> clock]]
    /\ pc' = "sync_ret"
    /\ UNCHANGED <<clock, cookiesFile, weekplanFile, remote, cmd, args, lg, ret,
                   net, before, prev, page, parsed, shown, plan, mv, tokenFile,
                   cleared>>

\* lines 428-435: the sort and the snapshot
SyncSort ==
    /\ pc = "sync_sort"
    /\ sw' = [sw EXCEPT !.all_days = SortByDate(@)]
    /\ data' = [timestamp |-> clock, sinceDate |-> args.since,
                weekplan |-> [days |-> SortByDate(sw.all_days)]]
    /\ pc' = "sync_ret"
    /\ UNCHANGED <<clock, cookiesFile, weekplanFile, remote, cmd, args, lg, ret,
                   net, before, prev, page, parsed, shown, plan, mv, tokenFile,
                   cleared>>

----------------------------------------------------------------------------
(* cmd_plan_sync *)

\* a variant that keeps the days of the snapshot already in the file
save_weekplan_merge(file, d) ==
    [exists |-> TRUE,
     data |-> IF file.exists
              THEN [d EXCEPT !.weekplan.days = file.data.weekplan.days \o @]
              ELSE d]

\* save_weekplan(data): the file is written anew
save_weekplan(file, d) == [exists |-> TRUE, data |-> d]

\* lines 908-919: the arguments and the look at the stored cookies
CmdPlanSync ==
    /\ pc = "idle"
    /\ cmd' = "plan_sync"
    /\ \E since \in SinceInputs, days \in DayCounts :
         args' = [since |-> IF since = EmptyStr THEN isoformat(Today) ELSE since,
                  days |-> days]
    /\ pc' = IF is_authenticated(LoadCookies(cookiesFile)) THEN "sync_enter"
             ELSE "ask_login"
    /\ UNCHANGED <<clock, cookiesFile, weekplanFile, remote, lg, ret, sw, data, net,
                   before, prev, page, parsed, shown, plan, mv, tokenFile,
                   cleared>>

\* the cookie jars do_login holds when it returns, the servers having set one
\* cookie during the flow
LoginJars == {JarAfter(<<>>, <<c>>) : c \in CookieOffers}

\* lines 920-939: "Jetzt einloggen?" answered no ends the command; answered yes,
\* do_login runs, as a whole: it dies of an exception, returns failure and has
\* written nothing, or returns success and has saved its jar
PlanSyncLogin ==
    /\ pc = "ask_login"
    /\ \/ /\ pc' \in {"exit", "crashed"}
          /\ UNCHANGED <<cookiesFile, ret>>
       \/ /\ pc' = "exit"
          /\ ret' = [ok |-> FALSE, msg |-> MsgNoAuthCookies, count |-> 0]
          /\ UNCHANGED cookiesFile
       \/ \E jar \in LoginJars :
            /\ HasAuthCookies(jar)
            /\ cookiesFile' = save_cookies_from_jar(jar)
            /\ ret' = [ok |-> TRUE, msg |-> MsgSuccess, count |-> Len(jar)]
            /\ pc' = "sync_enter"
    /\ UNCHANGED <<clock, weekplanFile, remote, cmd, args, lg, sw, data, net,
                   before, prev, page, parsed, shown, plan, mv, tokenFile,
                   cleared>>

\* a variant that writes whatever sync_weekplan returned
PlanSyncFinishAlways ==
    /\ pc = "sync_ret"
    /\ weekplanFile' = save_weekplan(weekplanFile, data)
    /\ pc' = "exit"
    /\ UNCHANGED <<clock, cookiesFile, remote, cmd, args, lg, ret, sw, data, net,
                   before, prev, page, parsed, shown, plan, mv, tokenFile,
                   cleared>>

\* lines 939-958: sync_weekplan has returned; an error is printed, a snapshot saved
PlanSyncFinish ==
    /\ pc = "sync_ret"
    /\ weekplanFile' = IF IsError(data) THEN weekplanFile
                       ELSE save_weekplan(weekplanFile, data)
    /\ pc' = "exit"
    /\ UNCHANGED <<clock, cookiesFile, remote, cmd, args, lg, ret, sw, data, net,
                   before, prev, page, parsed, shown, plan, mv, tokenFile,
                   cleared>>

\* the same command line is run once more
Rerun ==
    /\ pc = "exit"
    /\ cmd = "plan_sync"
    /\ ~prev.valid
    /\ prev' = [valid |-> TRUE, since |-> args.since, days |-> args.days,
                today |-> sw.today, start_date |-> sw.start_date, data |-> data]
    /\ before' = [cookies |-> cookiesFile, weekplan |-> weekplanFile]
    /\ pc' = IF is_authenticated(LoadCookies(cookiesFile)) THEN "sync_enter"
             ELSE "ask_login"
    /\ UNCHANGED <<clock, cookiesFile, weekplanFile, remote, cmd, args, lg, ret, sw,
                   data, net, page, parsed, shown, plan, mv, tokenFile,
                   cleared>>

----------------------------------------------------------------------------
(* Specifications *)

\* one run of "plan sync", from every store and snapshot file of Init
Next ==
    \/ Tick
    \/ CmdPlanSync
    \/ PlanSyncLogin
    \/ SyncEnter
    \/ SyncParseSince
    \/ SyncLoopEnd
    \/ SyncFetchWeek
    \/ SyncSort
    \/ PlanSyncFinish

Spec == Init /\ [][Next]_vars

\* one run of "login"
NextLogin ==
    \/ CmdLogin
    \/ LoginStart
    \/ LoginPost
    \/ LoginHopsUsed
    \/ LoginHopVisit
    \/ LoginHopFollow
    \/ LoginVerify
    \/ CmdLoginDone

SpecLogin == Init /\ [][NextLogin]_vars

\* "plan sync" run twice with a logged-in store, the remote service holding its
\* pages between the changes of the plan
InitTwice ==
    /\ Init
    /\ is_authenticated(LoadCookies(cookiesFile))
    /\ weekplanFile = NoWeekplanFile

NextTwice ==
    \/ Tick
    \/ CmdPlanSync
    \/ SyncEnter
    \/ SyncParseSince
    \/ SyncLoopEnd
    \/ SyncFetchWeekHeld
    \/ SyncSort
    \/ PlanSyncFinish
    \/ Rerun

SpecTwice == InitTwice /\ [][NextTwice]_vars

\* a week page of the remote service: the seven days from day ws on, each with
\* one titled recipe
WeekPage(ws) ==
    Response(200, [marker |-> "none",
                   blocks |-> [i \in 1..DaysPerWeek |-> BlockA(Iso(ws + i - 1))]])

\* the first day of the week of day d, for a remote service whose weeks begin on
\* the days a, a + 7, a + 14, ...
AlignedWeekStart(d, a) == d - ((d - a + DaysPerWeek) % DaysPerWeek)

\* a remote service that answers the request for a date with its week of that
\* date
WeekServer(a) ==
    [d \in 0..(MaxDays + DaysPerWeek) |-> WeekPage(AlignedWeekStart(d, a))]

\* lines 908-919, for the runs against the remote service that serves whole weeks
CmdPlanSyncRange ==
    /\ pc = "idle"
    /\ cmd' = "plan_sync"
    /\ \E days \in 1..MaxDays : args' = [since |-> Iso(0), days |-> days]
    /\ pc' = IF is_authenticated(LoadCookies(cookiesFile)) THEN "sync_enter"
             ELSE "ask_login"
    /\ UNCHANGED <<clock, cookiesFile, weekplanFile, remote, lg, ret, sw, data, net,
                   before, prev, page, parsed, shown, plan, mv, tokenFile,
                   cleared>>

\* "plan sync" with a logged-in store against a remote service that serves whole
\* weeks, the start date on any day of the service's week
InitWeeks ==
    /\ clock = 0
    /\ cookiesFile \in {f \in InitCookieFiles : is_authenticated(LoadCookies(f))}
    /\ weekplanFile = NoWeekplanFile
    /\ remote \in {WeekServer(a) : a \in 0..(DaysPerWeek - 1)}
    /\ pc = "idle"
    /\ cmd = "none"
    /\ args = NoArgs
    /\ lg = NoLg
    /\ ret = NoRet
    /\ sw = NoSw
    /\ data = NoData
    /\ net = NoNet
    /\ before = [cookies |-> cookiesFile, weekplan |-> weekplanFile]
    /\ prev = NoPrev
    /\ cleared = "no"
    /\ tokenFile = FALSE
    /\ mv = NoMv
    /\ plan = {}
    /\ shown = NoShown
    /\ parsed = <<>>
    /\ page = NoPage

NextWeeks ==
    \/ Tick
    \/ CmdPlanSyncRange
    \/ SyncEnter
    \/ SyncParseSince
    \/ SyncLoopEnd
    \/ SyncFetchWeekHeld
    \/ SyncSort
    \/ PlanSyncFinish

SpecWeeks == InitWeeks /\ [][NextWeeks]_vars

----------------------------------------------------------------------------
(* parse_weekplan_html called on its own *)

\* a day block without day name, day number and tiles, and one whose only tile
\* has no title
BlockBare(s) == [date |-> s, name |-> NoMatch, number |-> " ", today |-> FALSE,
                 tiles |-> <<>>]
BlockUntitled(s) == [date |-> s, name |-> "Di", number |-> "2", today |-> FALSE,
                     tiles |-> <<Tile("r6", NoMatch)>>]

\* day blocks in a text handed to the extraction
MaxPageBlocks == 2

ParseBlocks ==
    {BlockA(Iso(0)), BlockB(Iso(0)), BlockA(BadDate), BlockBare(Iso(1)),
     BlockUntitled(Iso(1))}

\* the texts handed to the extraction: "" and the pages of up to MaxPageBlocks
\* day blocks, with or without a login marker
ParsePages ==
    {[marker |-> m, blocks |-> bs] :
        m \in {"none", "oauth2/start"}, bs \in SeqsUpTo(ParseBlocks, MaxPageBlocks)}

\* calls of the extraction in one run
MaxCalls == 2

\* a text is at hand, over any cookie store
InitParse ==
    /\ clock = 0
    /\ cookiesFile \in InitCookieFiles
    /\ weekplanFile = NoWeekplanFile
    /\ remote = NoRemote
    /\ pc = "idle"
    /\ cmd = "none"
    /\ args = NoArgs
    /\ lg = NoLg
    /\ ret = NoRet
    /\ sw = NoSw
    /\ data = NoData
    /\ net = NoNet
    /\ before = [cookies |-> cookiesFile, weekplan |-> weekplanFile]
    /\ prev = NoPrev
    /\ cleared = "no"
    /\ tokenFile = FALSE
    /\ mv = NoMv
    /\ plan = {}
    /\ shown = NoShown
    /\ page \in ParsePages
    /\ parsed = <<>>

\* lines 289-354: parse_weekplan_html(page), called at any time
ParseCall ==
    /\ pc = "idle"
    /\ Len(parsed) < MaxCalls
    /\ parsed' = Append(parsed, [html |-> page, days |-> parse_weekplan_html(page),
                                clock |-> clock])
    /\ UNCHANGED <<clock, cookiesFile, weekplanFile, remote, pc, cmd, args, lg, ret,
                   sw, data, net, before, prev, page, shown, plan, mv,
                   tokenFile, cleared>>

NextParse ==
    \/ Tick
    \/ ParseCall

SpecParse == InitParse /\ [][NextParse]_vars

----------------------------------------------------------------------------
(* A sync against pages that carry login texts *)

\* the answers of a remote service whose pages may name a login: "oauth2/start"
\* anywhere, "Login" within or after the first 500 characters, with and without
\* day blocks
MarkedResponses ==
    {Response(200, [marker |-> m, blocks |-> bs]) :
        m \in {"none", "oauth2/start", "Login", "late Login"},
        bs \in {<<>>, <<BlockA(Iso(0))>>, <<BlockB(Iso(0)), BlockA(Iso(1))>>}}
    \cup {Response(401, EmptyHtml)}

\* lines 408-426, the remote service answering with such pages and holding them
SyncFetchWeekMarked ==
    /\ pc = "sync_loop"
    /\ sw.week_offset < sw.weeks_needed
    /\ ~(WeekStart(sw) > sw.end_date)
    /\ \E resp \in (IF WeekStart(sw) \in DOMAIN remote THEN {remote[WeekStart(sw)]}
                    ELSE MarkedResponses) :
         /\ remote' = Remember(remote, WeekStart(sw), resp)
         /\ net' = [net EXCEPT !.requests = Append(@, WeekRequest(sw))]
         /\ FetchWeekStep(resp)
    /\ UNCHANGED <<clock, cookiesFile, weekplanFile, cmd, args, lg, ret, before, prev,
                   page, parsed, shown, plan, mv, tokenFile, cleared>>

InitMarked ==
    /\ Init
    /\ is_authenticated(LoadCookies(cookiesFile))

NextMarked ==
    \/ Tick
    \/ CmdPlanSyncRange
    \/ SyncEnter
    \/ SyncParseSince
    \/ SyncLoopEnd
    \/ SyncFetchWeekMarked
    \/ SyncSort
    \/ PlanSyncFinish

SpecMarked == InitMarked /\ [][NextMarked]_vars

----------------------------------------------------------------------------
(* cmd_today *)

\* --days where the command line has none
DefaultDays == 14

\* lines 961-969: the snapshot file is loaded; there being none, cmd_plan_sync
\* is called with the arguments of "today" (no --since, no --days)
CmdToday ==
    /\ pc \in {"idle", "exit"}
    /\ cmd # "today"
    /\ cmd' = "today"
    /\ shown' = NoShown
    /\ before' = [cookies |-> cookiesFile, weekplan |-> weekplanFile]
    /\ IF weekplanFile.exists THEN
           /\ pc' = "today_show"
           /\ args' = args
       ELSE
           /\ args' = [since |-> isoformat(Today), days |-> DefaultDays]
           /\ pc' = IF is_authenticated(LoadCookies(cookiesFile)) THEN "sync_enter"
                    ELSE "ask_login"
    /\ UNCHANGED <<clock, cookiesFile, weekplanFile, remote, lg, ret, sw, data, net,
                   prev, page, parsed, plan, mv, tokenFile, cleared>>

\* lines 966-969: cmd_plan_sync has returned, the snapshot file is loaded again
TodayResume ==
    /\ pc = "exit"
    /\ cmd = "today"
    /\ pc' = IF weekplanFile.exists THEN "today_show" ELSE "today_done"
    /\ UNCHANGED <<clock, cookiesFile, weekplanFile, remote, cmd, args, lg, ret, sw,
                   data, net, before, prev, page, parsed, shown, plan, mv,
                   tokenFile, cleared>>

\* a variant that goes by the date alone
TodayPickByDate(days, today_str) ==
    LET hits == {i \in 1..Len(days) : days[i].date = today_str}
    IN IF hits = {} THEN NoDay
       ELSE days[CHOOSE i \in hits : \A j \in hits : i <= j]

\* lines 974-977: the first day of the list whose date is today_str or whose
\* isToday is set
TodayPick(days, today_str) ==
    LET hits == {i \in 1..Len(days) : days[i].date = today_str \/ days[i].isToday}
    IN IF hits = {} THEN NoDay
       ELSE days[CHOOSE i \in hits : \A j \in hits : i <= j]

\* lines 971-984: the day to show is picked from the snapshot and shown
TodayShow ==
    /\ pc = "today_show"
    /\ shown' = [done |-> TRUE, today_str |-> isoformat(Today),
                 day |-> TodayPick(weekplanFile.data.weekplan.days, isoformat(Today))]
    /\ pc' = "today_done"
    /\ UNCHANGED <<clock, cookiesFile, weekplanFile, remote, cmd, args, lg, ret, sw,
                   data, net, before, prev, page, parsed, plan, mv, tokenFile,
                   cleared>>

\* "plan sync" and "today" with a logged-in store, on the same day or on
\* different days
InitToday ==
    /\ Init
    /\ is_authenticated(LoadCookies(cookiesFile))

NextToday ==
    \/ Tick
    \/ CmdPlanSync
    \/ SyncEnter
    \/ SyncParseSince
    \/ SyncLoopEnd
    \/ SyncFetchWeek
    \/ SyncSort
    \/ PlanSyncFinish
    \/ CmdToday
    \/ TodayResume
    \/ TodayShow

SpecToday == InitToday /\ [][NextToday]_vars

----------------------------------------------------------------------------
(* move_recipe_in_plan and its caller cmd_plan_move *)

\* --from and --to
MoveDates == {Iso(0), Iso(1)}

\* the outcomes of one urlopen + json.loads: a 2xx answer with a JSON body, a 2xx
\* answer whose body is no JSON (json.loads raises), an HTTPError, a failure of
\* the connection
CallOutcomes == {"json", "nojson", "httperror", "failed"}

\* the remote service has carried out the request: always when it answers 2xx,
\* never when it answers with an error status, maybe when the connection failed
CanHaveActed(out) ==
    CASE out \in {"json", "nojson"} -> {TRUE}
      [] out = "httperror" -> {FALSE}
      [] OTHER -> BOOLEAN

MsgRemoveFailed == "Entfernen fehlgeschlagen"
MsgAddFailed == "Hinzufuegen fehlgeschlagen"
MsgMoved == "Rezept verschoben"

\* lines 1195-1208: both dates given, move_recipe_in_plan is called
CmdPlanMove ==
    /\ pc = "idle"
    /\ cmd' = "plan_move"
    /\ \E from_date \in MoveDates \cup {EmptyStr}, to_date \in MoveDates :
         /\ mv' = [NoMv EXCEPT !.from_date = from_date, !.to_date = to_date,
                               !.before = plan]
         /\ pc' = IF from_date = EmptyStr THEN "exit" ELSE "move_remove"
    /\ UNCHANGED <<clock, cookiesFile, weekplanFile, remote, args, lg, ret, sw, data,
                   net, before, prev, page, parsed, shown, plan, tokenFile,
                   cleared>>

\* lines 612-617, with remove_recipe_from_plan (lines 581-609): the DELETE
\* request for from_date
MoveRemove ==
    /\ pc = "move_remove"
    /\ IF ~is_authenticated(LoadCookies(cookiesFile)) THEN
           /\ mv' = [mv EXCEPT !.ret = [ok |-> FALSE, msg |-> MsgRemoveFailed]]
           /\ plan' = plan
           /\ pc' = "move_ret"
       ELSE
           \E out \in CallOutcomes : \E acted \in CanHaveActed(out) :
              /\ plan' = IF acted THEN plan \ {mv.from_date} ELSE plan
              /\ IF out = "json" THEN
                     /\ mv' = [mv EXCEPT !.requests = Append(@, [method |-> "DELETE",
                                                                 date |-> mv.from_date]),
                                         !.removed = TRUE]
                     /\ pc' = "move_add"
                 ELSE
                     /\ mv' = [mv EXCEPT !.requests = Append(@, [method |-> "DELETE",
                                                                 date |-> mv.from_date]),
                                         !.ret = [ok |-> FALSE, msg |-> MsgRemoveFailed]]
                     /\ pc' = "move_ret"
    /\ UNCHANGED <<clock, cookiesFile, weekplanFile, remote, cmd, args, lg, ret, sw,
                   data, net, before, prev, page, parsed, shown, tokenFile,
                   cleared>>

\* lines 619-624, with add_recipe_to_plan (lines 542-577): the PUT request for
\* to_date, and the result
MoveAdd ==
    /\ pc = "move_add"
    /\ IF ~is_authenticated(LoadCookies(cookiesFile)) THEN
           /\ mv' = [mv EXCEPT !.ret = [ok |-> FALSE, msg |-> MsgAddFailed]]
           /\ plan' = plan
           /\ pc' = "move_ret"
       ELSE
           \E out \in CallOutcomes : \E acted \in CanHaveActed(out) :
              /\ plan' = IF acted THEN plan \cup {mv.to_date} ELSE plan
              /\ mv' = [mv EXCEPT !.requests = Append(@, [method |-> "PUT",
                                                          date |-> mv.to_date]),
                                  !.ret = IF out = "json"
                                          THEN [ok |-> TRUE, msg |-> MsgMoved]
                                          ELSE [ok |-> FALSE, msg |-> MsgAddFailed]]
              /\ pc' = "move_ret"
    /\ UNCHANGED <<clock, cookiesFile, weekplanFile, remote, cmd, args, lg, ret, sw,
                   data, net, before, prev, page, parsed, shown, tokenFile,
                   cleared>>

\* lines 1210-1214: the result is printed
CmdPlanMoveDone ==
    /\ pc = "move_ret"
    /\ pc' = "exit"
    /\ UNCHANGED <<clock, cookiesFile, weekplanFile, remote, cmd, args, lg, ret, sw,
                   data, net, before, prev, page, parsed, shown, plan, mv,
                   tokenFile, cleared>>

\* "plan move" over any cookie store, the recipe planned on any of the dates
InitMove ==
    /\ clock = 0
    /\ cookiesFile \in InitCookieFiles
    /\ weekplanFile \in InitWeekplanFiles
    /\ remote = NoRemote
    /\ pc = "idle"
    /\ cmd = "none"
    /\ args = NoArgs
    /\ lg = NoLg
    /\ ret = NoRet
    /\ sw = NoSw
    /\ data = NoData
    /\ net = NoNet
    /\ before = [cookies |-> cookiesFile, weekplan |-> weekplanFile]
    /\ prev = NoPrev
    /\ cleared = "no"
    /\ tokenFile = FALSE
    /\ page = NoPage
    /\ parsed = <<>>
    /\ shown = NoShown
    /\ plan \in SUBSET MoveDates
    /\ mv = NoMv

NextMove ==
    \/ Tick
    \/ CmdPlanMove
    \/ MoveRemove
    \/ MoveAdd
    \/ CmdPlanMoveDone

SpecMove == InitMove /\ [][NextMove]_vars

----------------------------------------------------------------------------
(* cmd_cache_clear *)

\* a variant that removes the cookie store whether --all is given or not
CmdCacheClearAll ==
    /\ pc = "idle"
    /\ cleared = "no"
    /\ cmd' = "cache_clear"
    /\ \E all \in BOOLEAN :
         /\ weekplanFile' = NoWeekplanFile
         /\ tokenFile' = FALSE
         /\ cookiesFile' = NoCookiesFile
         /\ cleared' = IF all THEN "all" ELSE "some"
    /\ pc' = "idle"
    /\ UNCHANGED <<clock, remote, args, lg, ret, sw, data, net, before, prev, page,
                   parsed, shown, plan, mv>>

\* lines 1083-1114: the snapshot file and the search token file are removed,
\* with --all the cookie store too; the command ends
CmdCacheClear ==
    /\ pc = "idle"
    /\ cleared = "no"
    /\ cmd' = "cache_clear"
    /\ \E all \in BOOLEAN :
         /\ weekplanFile' = NoWeekplanFile
         /\ tokenFile' = FALSE
         /\ cookiesFile' = IF all THEN NoCookiesFile ELSE cookiesFile
         /\ cleared' = IF all THEN "all" ELSE "some"
    /\ pc' = "idle"
    /\ UNCHANGED <<clock, remote, args, lg, ret, sw, data, net, before, prev, page,
                   parsed, shown, plan, mv>>

\* sync_weekplan(since, days_count) called on its own
SyncCall ==
    /\ pc = "idle"
    /\ cmd' = "sync_weekplan"
    /\ \E days \in DayCounts : args' = [since |-> Iso(0), days |-> days]
    /\ pc' = "sync_enter"
    /\ UNCHANGED <<clock, cookiesFile, weekplanFile, remote, lg, ret, sw, data, net,
                   before, prev, page, parsed, shown, plan, mv, tokenFile, cleared>>

\* "cache clear" and then "plan sync", or a call of sync_weekplan, over any
\* cookie store, snapshot file and search token file
InitClear ==
    /\ clock = 0
    /\ cookiesFile \in InitCookieFiles
    /\ weekplanFile \in InitWeekplanFiles
    /\ remote = NoRemote
    /\ pc = "idle"
    /\ cmd = "none"
    /\ args = NoArgs
    /\ lg = NoLg
    /\ ret = NoRet
    /\ sw = NoSw
    /\ data = NoData
    /\ net = NoNet
    /\ before = [cookies |-> cookiesFile, weekplan |-> weekplanFile]
    /\ prev = NoPrev
    /\ page = NoPage
    /\ parsed = <<>>
    /\ shown = NoShown
    /\ plan = {}
    /\ mv = NoMv
    /\ tokenFile \in BOOLEAN
    /\ cleared = "no"

NextClear ==
    \/ CmdCacheClear
    \/ CmdPlanSync
    \/ PlanSyncLogin
    \/ SyncCall
    \/ SyncEnter
    \/ SyncParseSince
    \/ SyncLoopEnd
    \/ SyncFetchWeekMarked
    \/ SyncSort
    \/ (cmd = "plan_sync" /\ PlanSyncFinish)

SpecClear == InitClear /\ [][NextClear]_vars

----------------------------------------------------------------------------
(* The last step of do_login on the pages a failed login ends on *)

\* the texts a failure page shows
FailureTexts ==
    {"", "Falsches Passwort", "Incorrect", "Nicht gefunden", "not found",
     "Incorrect, not found"}

\* the jars do_login holds after the redirect loop, the servers having set up
\* to two cookies
VerifyJars == {JarAfter(<<>>, cs) : cs \in SeqsUpTo(CookieOffers, 2)}

\* do_login has left its redirect loop on the page the credential POST was
\* answered with, a page of the login server that names no redirect
InitVerify ==
    /\ clock = 0
    /\ cookiesFile \in InitCookieFiles
    /\ weekplanFile = NoWeekplanFile
    /\ remote = NoRemote
    /\ pc = "login_verify"
    /\ cmd = "login"
    /\ args = NoArgs
    /\ \E jar \in VerifyJars, text \in FailureTexts :
         lg = [NoLg EXCEPT !.jar = jar, !.login_html = FormBody,
                           !.login_url = UrlIdp, !.request_id = "reqB",
                           !.post_status = 200,
                           !.result_html = Body(NoMatch, FALSE, NoUrl, text),
                           !.final_url = UrlIdp, !.left = "noredirect"]
    /\ ret = NoRet
    /\ sw = NoSw
    /\ data = NoData
    /\ net = [NoNet EXCEPT !.posts = <<"reqB">>]
    /\ before = [cookies |-> cookiesFile, weekplan |-> weekplanFile]
    /\ prev = NoPrev
    /\ cleared = "no"
    /\ tokenFile = FALSE
    /\ mv = NoMv
    /\ plan = {}
    /\ shown = NoShown
    /\ page = NoPage
    /\ parsed = <<>>

NextVerify ==
    \/ LoginVerify
    \/ CmdLoginDone

SpecVerify == InitVerify /\ [][NextVerify]_vars

----------------------------------------------------------------------------
(* Properties of sync_weekplan and cmd_plan_sync, checked under Spec *)

\* the days of the snapshot sync_weekplan returned
SnapshotDays == data.weekplan.days

\* C1: every day of a snapshot sync_weekplan returns has a date d with
\* start <= d < start + days_count, and the dates of the days list are strictly
\* increasing, no date twice, whatever day blocks the fetched pages hold.
C1_DaysInRangeStrictlyIncreasing ==
    (pc = "sync_ret" /\ IsSnapshot(data)) =>
        /\ \A i \in 1..Len(SnapshotDays) :
             /\ ~RaisesValueError(SnapshotDays[i].date)
             /\ sw.start_date <= fromisoformat(SnapshotDays[i].date)
             /\ fromisoformat(SnapshotDays[i].date) < sw.start_date + args.days
        /\ \A i, j \in 1..Len(SnapshotDays) :
             i < j => fromisoformat(SnapshotDays[i].date)
                        < fromisoformat(SnapshotDays[j].date)

\* the persisted store holds v-authenticated or _oauth2_proxy with a non-empty value
StoreAuthenticated ==
    /\ cookiesFile.exists
    /\ \E i \in 1..Len(cookiesFile.content) :
         /\ cookiesFile.content[i].name \in {"v-authenticated", "_oauth2_proxy"}
         /\ cookiesFile.content[i].value # ""

\* C2: with a persisted store that is not authenticated, sync_weekplan returns
\* the not-logged-in error at once: it sends no request and makes no snapshot.
C2_NotLoggedInNoRequest ==
    ~StoreAuthenticated =>
        /\ net.requests = <<>>
        /\ pc \notin {"sync_parse", "sync_loop", "sync_sort"}
        /\ ~IsSnapshot(data)
        /\ pc = "sync_ret" => data = [error |-> ErrNotLoggedIn]

\* sync_weekplan was called on a store a login wrote and found it not logged in
C2_Witness ==
    /\ pc = "sync_ret"
    /\ ~StoreAuthenticated
    /\ ret.ok
    /\ data = [error |-> ErrNotLoggedIn]

\* C3: when the fetch of week 0 yields no day, sync_weekplan returns the
\* session-expired error after that one request, and cmd_plan_sync leaves the
\* snapshot file as it was.
C3_EmptyFirstWeekIsError ==
    /\ sw.empty_at = 0 =>
         /\ data = [error |-> ErrSessionExpired]
         /\ Len(net.requests) = 1
         /\ pc \in {"sync_ret", "exit"}
    /\ (pc = "exit" /\ IsError(data)) => weekplanFile = before.weekplan

\* the command ended on an empty week 0, an older snapshot in the file
C3_Witness ==
    /\ pc = "exit"
    /\ sw.empty_at = 0
    /\ data = [error |-> ErrSessionExpired]
    /\ weekplanFile = [exists |-> TRUE, data |-> OldSnapshot]

\* C4: when week 0 held days and the fetch of a later week k yields none, no
\* week after k is requested and sync_weekplan returns a snapshot, not an error,
\* of the days gathered from the weeks before k.
C4_LaterEmptyWeekStops ==
    (sw.empty_at >= 1) =>
        /\ pc \in {"sync_sort", "sync_ret", "exit"}
        /\ Len(net.requests) = sw.empty_at + 1
        /\ \A i \in 1..Len(net.requests) :
             net.requests[i].date = Iso(sw.start_date + DaysPerWeek * (i - 1))
        /\ sw.week_offset = sw.empty_at
        /\ pc \in {"sync_ret", "exit"} =>
             /\ IsSnapshot(data)
             /\ ~IsError(data)
             /\ Len(SnapshotDays) = Cardinality(sw.seen_dates)
             /\ \A i \in 1..Len(SnapshotDays) :
                  /\ SnapshotDays[i].date \in sw.seen_dates
                  /\ sw.start_date <= SnapshotDays[i].date.d
                  /\ SnapshotDays[i].date.d < sw.end_date

\* two weeks held days, the third none: a snapshot with days was returned
C4_Witness ==
    /\ pc = "sync_ret"
    /\ sw.empty_at = 2
    /\ IsSnapshot(data)
    /\ Len(SnapshotDays) >= 2

\* C10: after a plan sync that returned a snapshot, the snapshot file holds that
\* snapshot and nothing of the one it held before.
C10_SnapshotReplacesFile ==
    (pc = "exit" /\ IsSnapshot(data)) =>
        /\ weekplanFile.exists
        /\ weekplanFile.data = data
        /\ \A i \in 1..Len(weekplanFile.data.weekplan.days) :
             \E j \in 1..Len(SnapshotDays) :
                weekplanFile.data.weekplan.days[i] = SnapshotDays[j]

\* a sync with days has ended over a file that held the older snapshot
C10_Witness ==
    /\ pc = "exit"
    /\ IsSnapshot(data)
    /\ Len(SnapshotDays) >= 1
    /\ before.weekplan = [exists |-> TRUE, data |-> OldSnapshot]
    /\ weekplanFile.data = data

----------------------------------------------------------------------------
(* Properties of do_login, checked under SpecLogin *)

\* do_login has returned
LoginReturned == pc = "login_ret"

\* C5: wherever do_login returns failure (OAuth start failed, requestId not
\* found, POST failed, no auth cookie after the loop) the cookie store is the
\* one the call found: nothing is written on a path that does not end in success.
C5_FailureLeavesStore ==
    /\ ~ret.ok => cookiesFile = before.cookies
    /\ LoginReturned =>
         (~ret.ok <=> ret.msg \in {MsgOauthFailed, MsgNoRequestId, MsgPostFailed,
                                   MsgWrongPassword, MsgNotFound, MsgNoAuthCookies})

\* the loop ended with a cookie in the jar that is no auth cookie of Cookidoo:
\* failure, over a store that existed before
C5_Witness ==
    /\ LoginReturned
    /\ ~ret.ok
    /\ lg.left # ""
    /\ Len(lg.jar) >= 1
    /\ before.cookies.exists
    /\ cookiesFile = before.cookies

\* the jar holds v-authenticated or _oauth2_proxy of a domain with "cookidoo" in it
JarHasCookidooAuth ==
    \E i \in 1..Len(lg.jar) :
       /\ lg.jar[i].domain \in {"cookidoo.de", "ciam.prod.cookidoo.vorwerk-digital.com"}
       /\ lg.jar[i].name \in {"v-authenticated", "_oauth2_proxy"}

C7_StoreIsTheJar ==
    (LoginReturned /\ ret.ok) =>
        /\ cookiesFile.exists
        /\ Len(cookiesFile.content) = Len(lg.jar)
        /\ \A i \in 1..Len(lg.jar) : cookiesFile.content[i] = lg.jar[i]
        /\ \A i, j \in 1..Len(lg.jar) :
             (lg.jar[i].name = lg.jar[j].name /\ lg.jar[i].domain = lg.jar[j].domain)
                => i = j
        /\ ret.count = Len(cookiesFile.content)

\* success with a jar of three cookies, one of them of the login server
C7_Witness ==
    /\ LoginReturned
    /\ ret.ok
    /\ Len(lg.jar) = 3
    /\ \E i \in 1..Len(cookiesFile.content) :
          cookiesFile.content[i].domain = "eu.login.vorwerk.com"

\* C8: a login page with the requestId neither in its body nor in its landing
\* URL makes do_login return the requestId-not-found failure, without a POST and
\* with the cookie store untouched; a requestId in the body is the one POSTed,
\* whatever the URL holds.
C8_NoRequestIdNoPost ==
    /\ (LoginReturned /\ ret.msg # MsgOauthFailed
          /\ lg.login_html.token = NoMatch /\ lg.login_url.token = NoMatch) =>
         /\ ret = [ok |-> FALSE, msg |-> MsgNoRequestId, count |-> 0]
         /\ net.posts = <<>>
         /\ cookiesFile = before.cookies
    /\ ret.msg = MsgNoRequestId =>
         (lg.login_html.token = NoMatch /\ lg.login_url.token = NoMatch)
    /\ \A i \in 1..Len(net.posts) :
         net.posts[i] = IF lg.login_html.token # NoMatch THEN lg.login_html.token
                        ELSE lg.login_url.token

\* the login page came without requestId, with a cookie: failure, nothing POSTed
C8_Witness ==
    /\ LoginReturned
    /\ ret.msg = MsgNoRequestId
    /\ lg.login_html = EmptyBody
    /\ lg.login_url = UrlIdp
    /\ Len(lg.jar) = 1
    /\ net.posts = <<>>

----------------------------------------------------------------------------
(* Properties of two runs of sync_weekplan, checked under SpecTwice *)

\* a snapshot without its timestamp
Untimed(d) == [sinceDate |-> d.sinceDate, weekplan |-> d.weekplan]

\* both runs have returned, each a snapshot
BothReturnedSnapshots ==
    /\ prev.valid
    /\ pc = "sync_ret"
    /\ IsSnapshot(prev.data)
    /\ IsSnapshot(data)

\* C9, as claimed: two runs with the same since and days_count, served the same
\* pages, return snapshots equal but for the timestamp.
C9_SameSnapshotTwice ==
    BothReturnedSnapshots => Untimed(data) = Untimed(prev.data)

\* C9, amended: two runs with the same since and days_count, served the same
\* pages, that read the same calendar date wherever they read it (today, and the
\* start date taken from it when since is no date) return snapshots equal but
\* for the timestamp.
C9_SameSnapshotSameDay ==
    (BothReturnedSnapshots /\ prev.today = sw.today
        /\ prev.start_date = sw.start_date) =>
        Untimed(data) = Untimed(prev.data)

\* two runs of one day, at different times, both with days in their snapshots
C9_Witness ==
    /\ BothReturnedSnapshots
    /\ prev.today = sw.today
    /\ prev.start_date = sw.start_date
    /\ data.timestamp # prev.data.timestamp
    /\ Len(SnapshotDays) >= 2

----------------------------------------------------------------------------
(* Properties of the cookie store and of the week fetches, checked under Spec *)

\* the persisted store holds a record named v-authenticated or _oauth2_proxy
StoreHasAuthRecord ==
    /\ cookiesFile.exists
    /\ \E i \in 1..Len(cookiesFile.content) :
         cookiesFile.content[i].name \in {"v-authenticated", "_oauth2_proxy"}

\* C11: is_authenticated(load_cookies()) is true exactly when the persisted
\* store holds a record named v-authenticated or _oauth2_proxy, whatever the
\* values and domains of its records.
C11_AuthenticatedIffRecord ==
    is_authenticated(LoadCookies(cookiesFile)) <=> StoreHasAuthRecord

\* sync_weekplan has died of an exception raised after its first request
SyncRaised == pc = "crashed" /\ net.requests # <<>>

\* C13: whatever the remote service answers, sync_weekplan ends by returning a
\* snapshot or an error value; it never dies of an exception.
C13_SyncAlwaysReturns == ~SyncRaised

\* C19: the weeks are requested in the order of their offsets 0, 1, 2, ..., the
\* k-th for the date start + 7k; no week that starts after the end date is
\* requested, no more than days_count // 7 + 2 weeks, and none twice.
C19_FetchOrder ==
    pc \in {"sync_loop", "sync_sort", "sync_ret", "crashed", "exit"} =>
        /\ \A i \in 1..Len(net.requests) :
             /\ net.requests[i].date = Iso(sw.start_date + 7 * (i - 1))
             /\ sw.start_date + 7 * (i - 1) <= sw.start_date + args.days
        /\ Len(net.requests) <= (args.days \div 7) + 2
        /\ \A i, j \in 1..Len(net.requests) :
             net.requests[i].date = net.requests[j].date => i = j
        /\ Len(net.requests) \in {sw.week_offset, sw.week_offset + 1}

\* three weeks were requested, the last the one that starts on the end date
C19_Witness ==
    /\ pc = "sync_ret"
    /\ args.days = 14
    /\ Len(net.requests) = 3
    /\ net.requests[3].date = Iso(sw.start_date + 14)

\* the ids of the tiles that carry a title with more than white space in it
TitledIds(tiles) ==
    LET titled(t) == t.title \notin {NoMatch, "", " "}
        kept == SelectSeq(tiles, titled)
    IN [i \in 1..Len(kept) |-> kept[i].id]

\* the day records sync_weekplan holds or has returned
DaysHeld ==
    {sw.all_days[i] : i \in 1..Len(sw.all_days)}
    \cup (IF IsSnapshot(data) THEN {SnapshotDays[i] : i \in 1..Len(SnapshotDays)}
          ELSE {})

\* C20: every recipe of every day that parse_weekplan_html emits has a title
\* that is not empty; a tile without a title, or with white space for one, is
\* left out, its day and the other recipes of the day are kept, in their order.
C20_RecipesHaveTitles ==
    \A day \in DaysHeld :
       /\ \A i \in 1..Len(day.recipes) : day.recipes[i].title \notin {NoMatch, "", " "}
       /\ \E b \in Blocks :
            /\ b.date = day.date
            /\ [i \in 1..Len(day.recipes) |-> day.recipes[i].id] = TitledIds(b.tiles)

\* a snapshot holds the day of a block with four tiles, two of them untitled
C20_Witness ==
    /\ pc = "sync_ret"
    /\ IsSnapshot(data)
    /\ \E i \in 1..Len(SnapshotDays) :
         [k \in 1..Len(SnapshotDays[i].recipes) |-> SnapshotDays[i].recipes[k].id]
            = <<"r3", "r5">>

----------------------------------------------------------------------------
(* Properties of a sync against whole weeks, checked under SpecWeeks *)

\* sync_weekplan has returned a snapshot
ReturnedSnapshot == pc = "sync_ret" /\ IsSnapshot(data)

\* C12: a sync of 14 days against a remote service whose page for a requested
\* date holds the 7 days from that date on, one titled recipe each, returns 14
\* day records, dated start .. start + 13 in this order, one recipe each.
C12_FourteenDays ==
    (ReturnedSnapshot /\ args.days = 14 /\ remote = WeekServer(0)) =>
        /\ Len(SnapshotDays) = 14
        /\ \A i \in 1..Len(SnapshotDays) :
             /\ SnapshotDays[i].date = Iso(sw.start_date + i - 1)
             /\ Len(SnapshotDays[i].recipes) = 1

\* the 14-day sync has returned, after the requests for three weeks
C12_Witness ==
    /\ ReturnedSnapshot
    /\ args.days = 14
    /\ remote = WeekServer(0)
    /\ Len(net.requests) = 3
    /\ Len(SnapshotDays) = 14

\* C14: against a remote service that answers with the seven days of its own
\* week of the requested date, every fetch succeeding, every date of
\* [start, start + days_count) is in the snapshot, for every weekday of the start
\* date and every days_count >= 1.
C14_WholeRangeCovered ==
    (ReturnedSnapshot /\ args.days >= 1) =>
        \A d \in sw.start_date..(sw.start_date + args.days - 1) :
           \E i \in 1..Len(SnapshotDays) : SnapshotDays[i].date = Iso(d)

----------------------------------------------------------------------------
(* Properties of the merge of the fetched days *)

\* the day records of the week pages fetched by the running call, in the order
\* of the fetches, the remote service holding its pages
RECURSIVE FetchedUpTo(_)
FetchedUpTo(n) ==
    IF n = 0 THEN <<>>
    ELSE FetchedUpTo(n - 1) \o fetch_week(remote[net.requests[n].date.d])

Fetched == FetchedUpTo(Len(net.requests))

\* the date string s names a day of the requested range
NamesDayInRange(s) ==
    /\ ~RaisesValueError(s)
    /\ sw.start_date <= s.d
    /\ s.d < sw.end_date

\* C17: when a date of the range occurs more than once in the fetched pages, in
\* one page or in several, the snapshot holds one day record of that date, the
\* one of its first occurrence in fetch order (isToday apart), and none of a
\* later occurrence.  Checked under SpecTwice.
C17_FirstOccurrenceWins ==
    ReturnedSnapshot =>
        \A k \in 1..Len(Fetched) :
           NamesDayInRange(Fetched[k].date) =>
              LET first == CHOOSE j \in 1..k :
                              /\ Fetched[j].date.d = Fetched[k].date.d
                              /\ \A h \in 1..(j - 1) : Fetched[h].date.d # Fetched[k].date.d
                  held == {i \in 1..Len(SnapshotDays) :
                              SnapshotDays[i].date.d = Fetched[k].date.d}
              IN /\ Cardinality(held) = 1
                 /\ \A i \in held :
                      [SnapshotDays[i] EXCEPT !.isToday = FALSE]
                         = [Fetched[first] EXCEPT !.isToday = FALSE]

\* C18: in every snapshot sync_weekplan returns, isToday of a day is true
\* exactly when the date of the day is the calendar date of the sync, whatever
\* marker the page carried; so at most one day has isToday true.  Checked
\* under Spec.
C18_IsTodayIffToday ==
    ReturnedSnapshot =>
        /\ \A i \in 1..Len(SnapshotDays) :
             SnapshotDays[i].isToday <=> (SnapshotDays[i].date.d = sw.today.d)
        /\ Cardinality({i \in 1..Len(SnapshotDays) : SnapshotDays[i].isToday}) <= 1

----------------------------------------------------------------------------
(* Properties of the requests of do_login, checked under SpecLogin *)

\* C15: the redirect loop of do_login runs at most 10 times, every pass leaving
\* the loop or counting a hop, so that do_login ends with a success or a failure
\* result whatever the remote servers answer: it never dies of an exception.
C15_LoginEndsWithResult ==
    /\ lg.redirect_count <= 10
    /\ pc = "login_hop" => lg.left = ""
    /\ pc # "crashed"

\* C16: a credential POST answered with a 3xx status is no error and is not
\* followed inside the POST call: no GET is made before the redirect loop, which
\* makes the first request to the URL of the Location header.
C16_PostRedirectLeftToLoop ==
    lg.post_status \in {301, 302, 303, 307} =>
        /\ lg.post_gets = 0
        /\ ret.msg # MsgPostFailed

----------------------------------------------------------------------------
(* Properties of parse_weekplan_html called on its own, checked under SpecParse *)

\* C21: parse_weekplan_html returns the empty list for a text without day
\* blocks and one day record per day block, in document order, for every text: a
\* block without recipes, day name or day number gives a day with no recipes and
\* empty strings; equal texts give equal results whenever the calls are made.
C21_ParseTotal ==
    /\ \A c \in 1..Len(parsed) :
         LET blocks == parsed[c].html.blocks
             days == parsed[c].days
         IN /\ blocks = <<>> => days = <<>>
            /\ Len(days) = Len(blocks)
            /\ \A k \in 1..Len(blocks) :
                 /\ days[k].date = blocks[k].date
                 /\ blocks[k].name = NoMatch => days[k].dayName = ""
                 /\ blocks[k].number \in {NoMatch, " "} => days[k].dayNumber = ""
                 /\ days[k].isToday = blocks[k].today
                 /\ [i \in 1..Len(days[k].recipes) |-> days[k].recipes[i].id]
                       = TitledIds(blocks[k].tiles)
    /\ \A c, e \in 1..Len(parsed) :
         parsed[c].html = parsed[e].html => parsed[c].days = parsed[e].days

\* one text of two day blocks without a recipe was parsed at two times: two days
\* without recipes, both times
C21_Witness ==
    /\ Len(parsed) = 2
    /\ parsed[1].html = parsed[2].html
    /\ parsed[1].clock # parsed[2].clock
    /\ parsed[1].html.blocks = <<BlockBare(Iso(1)), BlockUntitled(Iso(1))>>
    /\ Len(parsed[2].days) = 2
    /\ parsed[2].days[1].recipes = <<>>
    /\ parsed[2].days[1].dayName = ""
    /\ parsed[2].days[2].recipes = <<>>

----------------------------------------------------------------------------
(* Properties of the failure messages of do_login, checked under SpecVerify *)

\* the page shows 'falsches Passwort' or 'incorrect', in any case of letters
ShowsWrongPassword(body) ==
    body.phrase \in {"Falsches Passwort", "Incorrect", "Incorrect, not found"}

\* the page shows 'nicht gefunden' or 'not found', in any case of letters
ShowsNotFound(body) ==
    body.phrase \in {"Nicht gefunden", "not found", "Incorrect, not found"}

\* C22: a login that ends without an auth cookie reports the wrong-password
\* message when the last response body holds 'falsches Passwort' or 'incorrect'
\* in any case of letters, else the account-not-found message when it holds
\* 'nicht gefunden' or 'not found', else the no-auth-cookies message.
C22_FailurePhrases ==
    (LoginReturned /\ ~ret.ok) =>
        ret.msg = IF ShowsWrongPassword(lg.result_html) THEN MsgWrongPassword
                  ELSE IF ShowsNotFound(lg.result_html) THEN MsgNotFound
                  ELSE MsgNoAuthCookies

----------------------------------------------------------------------------
(* Properties of the start date of sync_weekplan, checked under Spec *)

\* sync_weekplan has found the store logged in and has set its start date
SyncStarted ==
    /\ is_authenticated(sw.cookies)
    /\ pc \in {"sync_loop", "sync_sort", "sync_ret", "crashed", "exit"}

\* C23: a since that is no ISO date does not make sync_weekplan raise: the start
\* date is the current date read during the call, the weeks requested and the
\* days kept are those of [start, start + days_count), and the call returns a
\* snapshot or an error value as it does for a valid date.
C23_BadSinceStartsToday ==
    (SyncStarted /\ RaisesValueError(args.since)) =>
        /\ sw.today.d <= sw.start_date
        /\ sw.start_date <= Today
        /\ sw.end_date = sw.start_date + args.days
        /\ \A i \in 1..Len(net.requests) :
             net.requests[i].date = Iso(sw.start_date + DaysPerWeek * (i - 1))
        /\ \A i \in 1..Len(sw.all_days) :
             /\ sw.start_date <= fromisoformat(sw.all_days[i].date)
             /\ fromisoformat(sw.all_days[i].date) < sw.start_date + args.days
        /\ pc = "crashed" => net.requests # <<>>
        /\ pc \in {"sync_ret", "exit"} => (IsSnapshot(data) \/ IsError(data))

\* a sync with a since that is no date, run on the day after the model starts,
\* has returned a snapshot with a day of that date
C23_Witness ==
    /\ pc = "sync_ret"
    /\ args.since = BadDate
    /\ sw.start_date = 1
    /\ IsSnapshot(data)
    /\ \E i \in 1..Len(SnapshotDays) : SnapshotDays[i].date = Iso(1)

----------------------------------------------------------------------------
(* Properties of a sync that follows a login, checked under Spec *)

\* C24: when do_login has returned success, the cookies it saved satisfy
\* is_authenticated once load_cookies has read them back, whatever the values of
\* the auth cookies, so the sync_weekplan that follows over the same store does
\* not return the not-logged-in error.
C24_LoginThenSyncLoggedIn ==
    ret.ok =>
        /\ is_authenticated(LoadCookies(cookiesFile))
        /\ data # [error |-> ErrNotLoggedIn]

----------------------------------------------------------------------------
(* Properties of cmd_today, checked under SpecToday *)

\* the days of the snapshot in the file
FileDays == weekplanFile.data.weekplan.days

\* C25: cmd_today shows the day of the persisted snapshot whose date is the
\* current date whenever the snapshot holds one, also a snapshot synced on an
\* earlier day: an isToday flag left in the snapshot does not make it show the
\* recipes of another day.
C25_TodayShowsToday ==
    (pc = "today_done" /\ shown.done) =>
        ((\E i \in 1..Len(FileDays) : FileDays[i].date = shown.today_str)
            => (shown.day # NoDay /\ shown.day.date = shown.today_str))

----------------------------------------------------------------------------
(* Properties of move_recipe_in_plan, checked under SpecMove *)

\* C26: move_recipe_in_plan sends the add request for to_date only after the
\* remove from from_date has succeeded, and whenever it reports failure a recipe
\* that was planned on from_date is still planned there: a failed add does not
\* leave it removed from both dates.
C26_MoveAllOrNothing ==
    /\ \A i \in 1..Len(mv.requests) :
         mv.requests[i].method = "PUT" =>
            /\ mv.removed
            /\ i = 2
            /\ mv.requests[1] = [method |-> "DELETE", date |-> mv.from_date]
    /\ (pc = "move_ret" /\ ~mv.ret.ok /\ mv.from_date \in mv.before) =>
          mv.from_date \in plan

----------------------------------------------------------------------------
(* Properties of the number of week fetches, checked under Spec *)

\* C27: sync_weekplan returns a snapshot only after it has requested week 0 and
\* got at least one day record for it, for every days_count, zero and negative
\* ones too: no snapshot is returned without a request to the remote service.
C27_SnapshotNeedsFetch ==
    ReturnedSnapshot =>
        /\ Len(net.requests) >= 1
        /\ net.requests[1].date = Iso(sw.start_date)
        /\ sw.empty_at # 0

----------------------------------------------------------------------------
(* Properties of the login texts in week pages, checked under SpecMarked *)

\* the page names a login where fetch_week looks for one: "oauth2/start"
\* anywhere, "login" in any case of letters within its first 500 characters
NamesLogin(html) == html.marker \in {"oauth2/start", "Login"}

\* the answer to the i-th week request of the running call
AnswerTo(i) == remote[net.requests[i].date.d]

\* C28: a week page of status 200 that holds 'oauth2/start' anywhere or 'login',
\* in any case of letters, within its first 500 characters counts as an empty
\* week even when it has day blocks, which for week 0 makes sync_weekplan return
\* the session-expired error; a page of status 200 with day blocks and without
\* these texts is not taken for an empty week.
C28_LoginPageIsEmptyWeek ==
    \A i \in 1..Len(net.requests) :
       LET resp == AnswerTo(i)
       IN /\ (resp.status = 200 /\ NamesLogin(resp.html)) =>
                /\ sw.empty_at = i - 1
                /\ i = 1 => (data = [error |-> ErrSessionExpired]
                               /\ pc \in {"sync_ret", "exit"})
          /\ (resp.status = 200 /\ ~NamesLogin(resp.html)
                /\ resp.html.blocks # <<>>) => sw.empty_at # i - 1

\* week 0 was answered with a page of day blocks that names a login in its first
\* 500 characters: the session-expired error
C28_Witness ==
    /\ pc = "sync_ret"
    /\ Len(net.requests) = 1
    /\ AnswerTo(1).html.marker = "Login"
    /\ AnswerTo(1).html.blocks # <<>>
    /\ data = [error |-> ErrSessionExpired]

----------------------------------------------------------------------------
(* Properties of the number of week fetches, checked under SpecWeeks *)

\* C29: for days_count >= 0 sync_weekplan makes at most days_count // 7 + 1 week
\* fetches: the loop ends at the check week_start > end_date at the latest, so
\* the last of the days_count // 7 + 2 offsets planned is never requested.
C29_LastOffsetNeverFetched ==
    (SyncStarted /\ args.days >= 0) =>
        /\ sw.weeks_needed = (args.days \div 7) + 2
        /\ Len(net.requests) <= (args.days \div 7) + 1
        /\ \A i \in 1..Len(net.requests) :
             net.requests[i].date # Iso(sw.start_date + 7 * (sw.weeks_needed - 1))
        /\ sw.week_offset < sw.weeks_needed
        /\ (pc \in {"sync_sort", "sync_ret", "exit"} /\ sw.empty_at = -1) =>
              sw.start_date + 7 * sw.week_offset > sw.end_date

\* a sync of 14 days, every week full, has ended after 3 of the 4 planned
\* fetches
C29_Witness ==
    /\ pc = "sync_ret"
    /\ args.days = 14
    /\ sw.weeks_needed = 4
    /\ sw.week_offset = 3
    /\ sw.empty_at = -1
    /\ Len(net.requests) = 3

----------------------------------------------------------------------------
(* Properties of cmd_cache_clear, checked under SpecClear *)

\* no login has succeeded since the cache clear
NoLoginSince == ~ret.ok

\* C30: cache clear without --all removes the snapshot file and the search token
\* file and leaves the cookie store as it was, is_authenticated answering as
\* before; with --all the cookie store is removed too, and until a login
\* succeeds every sync_weekplan returns the not-logged-in error, without a
\* request.
C30_ClearKeepsOrDropsLogin ==
    /\ (cleared # "no" /\ cmd = "cache_clear") =>
          (~weekplanFile.exists /\ ~tokenFile)
    /\ (cleared = "some" /\ NoLoginSince) =>
          /\ cookiesFile = before.cookies
          /\ is_authenticated(LoadCookies(cookiesFile))
                = is_authenticated(LoadCookies(before.cookies))
    /\ (cleared = "all" /\ NoLoginSince) =>
          /\ ~cookiesFile.exists
          /\ ~is_authenticated(LoadCookies(cookiesFile))
          /\ net.requests = <<>>
          /\ pc \notin {"sync_parse", "sync_loop", "sync_sort"}
          /\ pc = "sync_ret" => data = [error |-> ErrNotLoggedIn]

\* the snapshot and the token were cleared over a logged-in store, and the sync
\* that followed has fetched a week
C30_Witness ==
    /\ cleared = "some"
    /\ before.weekplan.exists
    /\ is_authenticated(LoadCookies(cookiesFile))
    /\ NoLoginSince
    /\ pc = "sync_ret"
    /\ Len(net.requests) >= 1

====
